---- MODULE Spec2Model ----
(***************************************************************************)
(* PracticeSession (public/js/practice.js) driven by a caller that holds   *)
(* one session reference, together with App.repeatWord                     *)
(* (public/js/app.js), which reads the session's current word.             *)
(*                                                                         *)
(* JavaScript arrays are objects reached through references, so the model  *)
(* keeps a heap of arrays: "arg" is the caller's array handed to the       *)
(* constructor, "all" the array made at practice.js:8 and "rem" the array  *)
(* last returned by shuffle.  The fields allWords and remainingWords of    *)
(* the session hold references into that heap.  The session object itself  *)
(* is a function from the property names assigned so far to their values:  *)
(* an object whose constructor threw has no properties.                    *)
(*                                                                         *)
(* The module also holds the extract-words endpoint (api/extract-words.js) *)
(* with its rate limiter, and the app (public/js/app.js) with the speech   *)
(* module (public/js/speech.js).  Each part has its own specification:     *)
(* Spec the session, RateSpec the rate limiter under a clock, HandlerSpec  *)
(* the handler over requests, CleanSpec the handler over the arrays the    *)
(* vision model returns, AppSpec the app from the load of the page,        *)
(* CycleSpec the session with the word returned before the last one,       *)
(* ShuffleSpec shuffle alone over every short array, RetrySpec the rate    *)
(* limiter with the denials of each key, OriginSpec the origin validation  *)
(* over short Origin headers, CaptureSpec the app from capture to          *)
(* practice with the list of the confirmation view, OverlapSpec the app    *)
(* with extractions that outlast the start of a session.                   *)
(***************************************************************************)
EXTENDS Integers, Sequences, FiniteSets, TLC

VARIABLES
    heap,      \* reference -> contents of the array it names
    session,   \* the caller's variable: Null, or "obj" once `new` returned
    this,      \* own properties of the object the last `new` allocated
    lastCall,  \* the last call made and what came back: [op, val, error]
    W,         \* history: contents of the array given to the last successful constructor
    calls,     \* history: getNextWord calls since construction or the last reset
    drawn      \* history: words returned in the current block of Len(W) calls

vars == <<heap, session, this, lastCall, W, calls, drawn>>

\* The extract-words endpoint (api/extract-words.js) and its rate limiter.
VARIABLES
    rateLimitMap,  \* Map: rate-limit key -> [timestamps |-> array of Date.now() values]
    now,           \* Date.now() in milliseconds
    rateLimit,     \* the last checkRateLimit call: its key and what it returned
    res,           \* the last response of the handler: [status, error, words]
    served,        \* history: the last request handled and what the handler did for it
    admitted       \* history: per key, the timestamps of the requests admitted so far

serverVars == <<rateLimitMap, now, rateLimit, res, served, admitted>>

\* The page (public/js/app.js and public/js/speech.js).
VARIABLES
    currentView,  \* App.currentView
    page,         \* what the app has written to the elements of the page
    utterances,   \* utterances given to the synthesizer whose end or error event is due
    extracting,   \* handleImageCaptured invocations waiting for OCRModule.extractWords
    event,        \* history: the last handler or callback of the app that ran
    env           \* which modules the page has loaded and whether it can speak

appVars == <<currentView, page, utterances, extracting, event, env>>

\* History, and the confirmation list, kept by the specifications that follow them.
VARIABLES
    previous,  \* history: the word the getNextWord call before the last one returned
    chosen,    \* history: the values of j the last shuffle drew, chosen[i] at index i
    denial,    \* history: per key, the denials since its last admitted request
               \* (pending) and those that preceded that request (honoured),
               \* each with the time of the call and the resetIn it returned
    wordList,  \* the items of the list showConfirmation last put on the page
    overlap    \* history: how many of the extractions in flight were already
               \* in flight when the session was created (awaited), and
               \* whether the last step was one of them completing (late)

histVars == <<previous, chosen, denial, wordList, overlap>>

allVars == <<vars, serverVars, appVars, histVars>>

----------------------------------------------------------------------------
(* Bounds *)

MaxLen == 3      \* longest word list given to the constructor
MaxDraws == 7    \* most getNextWord calls between two constructions/resets
MaxTicks == 2    \* most clock steps the rate limiter is followed through
TickMs == 30000  \* milliseconds per clock step
MaxAdmitted == 11       \* most requests admitted for the busiest key
MaxOtherAdmitted == 1   \* most requests admitted for each other key
MaxWordLen == 3  \* longest string among the entries the vision model returns
MaxEntries == 3  \* longest array the vision model returns
MaxSpoken == 2      \* most words one session of the app is asked for
MaxUtterances == 1  \* most utterances whose events are due at once
MaxInFlight == 2    \* most extractions the app waits for at once
MaxHostLen == 3     \* longest host of an Origin header put to the origin check

----------------------------------------------------------------------------
(* Values *)

WordSeq == <<"x", "y", "z">>
Words == {WordSeq[i] : i \in DOMAIN WordSeq}
Null == "null"
Undefined == "undefined"
NoObject == [p \in {} |-> Null]

Rank(w) == CHOOSE i \in DOMAIN WordSeq : WordSeq[i] = w

MaxOf(S) == IF S = {} THEN 0 ELSE CHOOSE m \in S : \A k \in S : k <= m

\* practice.js never inspects the text of a word, so word lists are taken
\* up to renaming of the words: the first occurrences appear in the order
\* x, y, z.  Duplicates and every length 0..MaxLen are kept.
FirstOccurrencesInOrder(ws) ==
    \A i \in DOMAIN ws : Rank(ws[i]) <= 1 + MaxOf({Rank(ws[j]) : j \in 1..(i - 1)})

WordLists ==
    {ws \in UNION {[1..n -> Words] : n \in 0..MaxLen} : FirstOccurrencesInOrder(ws)}

Range(s) == {s[i] : i \in DOMAIN s}

\* The multiset of the entries of a sequence.
BagOf(s) == [w \in Range(s) |-> Cardinality({i \in DOMAIN s : s[i] = w})]

----------------------------------------------------------------------------
(* Array helpers *)

Swap(s, i, j) == [s EXCEPT ![i] = s[j], ![j] = s[i]]

\* A bug: slice in place of splice, which removes nothing.
SliceOut(s, index) == s

\* A bug: splice(index, 2), which removes two elements.
SpliceOutTwo(s, index) == SubSeq(s, 1, index) \o SubSeq(s, index + 3, Len(s))

\* array.splice(index, 1) on a 0-based index: what is left in the array.
SpliceOut(s, index) == SubSeq(s, 1, index) \o SubSeq(s, index + 2, Len(s))

\* array.splice(index, 1)[0]: the removed element, undefined when there is none.
SpliceTaken(s, index) == IF index + 1 \in DOMAIN s THEN s[index + 1] ELSE Undefined

\* A bug: Math.round in place of Math.floor, which can yield length.
RandomIndexRounded(length) == 0..length

\* A bug: the first element of the pool is always the one taken.
RandomIndexFirst(length) == {0}

\* Math.floor(Math.random() * length): Math.random() is in [0, 1).
RandomIndex(length) == IF length = 0 THEN {0} ELSE 0..(length - 1)

\* A bug: Math.random() * i in place of Math.random() * (i + 1), which
\* never leaves element i where it is.
JBelow(i) == 1..(i - 1)

\* Math.floor(Math.random() * (i + 1)): any index in [0, i] (here 1-based,
\* any of 1..i).
JChoices(i) == 1..i

\* The loop of shuffle: i runs from length-1 down to 1 (here 1-based, from
\* Len down to 2), j is any index in [0, i], elements i and j are swapped.
RECURSIVE FisherYates(_, _)
FisherYates(shuffled, i) ==
    IF i <= 1 THEN {shuffled}
    ELSE UNION {FisherYates(Swap(shuffled, i, j), i - 1) : j \in JChoices(i)}

\* shuffle(array): every array the call can return; the argument is copied first.
shuffle(array) == FisherYates(array, Len(array))

\* The values of j one call of shuffle on an array of the given length can
\* draw: js[k] is the one drawn when i is k + 1 (1-based).
ChoiceSeqs(length) ==
    {js \in [1..(length - 1) -> 1..length] :
        \A k \in 1..(length - 1) : js[k] \in JChoices(k + 1)}

\* The loop of shuffle when the values of j are js.
RECURSIVE FisherYatesBy(_, _, _)
FisherYatesBy(shuffled, i, js) ==
    IF i <= 1 THEN shuffled
    ELSE FisherYatesBy(Swap(shuffled, i, js[i - 1]), i - 1, js)

\* shuffle(array) when the values of j are js.
shuffleBy(array, js) == FisherYatesBy(array, Len(array), js)

----------------------------------------------------------------------------
(* Accessors of PracticeSession *)

allWords == heap[this.allWords]
remainingWords == heap[this.remainingWords]

getTotalWords == Len(allWords)
getWordsSpoken == this.wordsSpoken
getRemainingCount == Len(remainingWords)
getCurrentWord == this.currentWord
hasCurrentWord == this.currentWord # Null

Constructed == session = "obj"

----------------------------------------------------------------------------
NoHistory ==
    /\ previous = Null
    /\ chosen = <<>>
    /\ denial = [ip \in {<<"1">>, <<"2">>} |-> [pending |-> {}, honoured |-> {}]]
    /\ wordList = <<>>
    /\ overlap = [awaited |-> 0, late |-> FALSE]

Init ==
    /\ heap = [r \in {"arg", "all", "rem"} |-> <<>>]
    /\ session = Null
    /\ this = NoObject
    /\ lastCall = [op |-> "none", val |-> Null, error |-> Null]
    /\ W = <<>>
    /\ calls = 0
    /\ drawn = <<>>

\* A bug: this.allWords = words, the caller's own array.
SpreadAliased(fresh, source) == source

\* `[...words]` at practice.js:8: the reference stored in allWords is that
\* of a new array (fresh), not that of the array spread (source).
SpreadInto(fresh, source) == fresh

\* A bug: the guard tests !words only.
RejectedWhenMissing(words, contents) == words # "arg"

\* The constructor's guard: !words || words.length === 0.
Rejected(words, contents) == words # "arg" \/ Len(contents) = 0

\* new PracticeSession(words), words being null, undefined or the caller's
\* array.  The guard comes first: when it throws, no property has been
\* assigned, `new` yields nothing and the caller's variable keeps its value.
Construct(words, contents) ==
    IF Rejected(words, contents)
    THEN /\ heap' = [heap EXCEPT !["arg"] = contents]
         /\ lastCall' = [op |-> "constructor", val |-> words,
                         error |-> "Cannot create practice session with empty word list"]
         /\ UNCHANGED <<session, this, W, calls, drawn>>
    ELSE \E shuffled \in shuffle(contents) :
         /\ heap' = [heap EXCEPT !["arg"] = contents,
                                 ![SpreadInto("all", "arg")] = contents,
                                 !["rem"] = shuffled]
         /\ session' = "obj"
         /\ this' = [allWords |-> SpreadInto("all", "arg"),
                     remainingWords |-> "rem",
                     wordsSpoken |-> 0,
                     currentWord |-> Null]
         /\ lastCall' = [op |-> "constructor", val |-> words, error |-> Null]
         /\ W' = contents
         /\ calls' = 0
         /\ drawn' = <<>>

\* new PracticeSession(words) by a caller that holds no session.
Constructor ==
    \E words \in {Null, Undefined, "arg"}, contents \in WordLists :
        /\ session = Null
        /\ words # "arg" => contents = <<>>
        /\ Construct(words, contents)

\* A bug: no reshuffle when the pool is empty.
RefillNever(pool, all) == {pool}

\* A bug: the pool is refilled while one word is still left in it.
RefillEarly(pool, all) == IF Len(pool) <= 1 THEN shuffle(all) ELSE {pool}

\* practice.js:16-19: the arrays the pool can be once the test for an empty
\* pool has run: a fresh shuffle of all words, or the pool as it was.
Refill(pool, all) == IF Len(pool) = 0 THEN shuffle(all) ELSE {pool}

\* A bug: the reshuffle done by calling reset().
ReshuffledByReset(obj) ==
    [obj EXCEPT !.remainingWords = "rem", !.wordsSpoken = 0, !.currentWord = Null]

\* practice.js:17: the object once the reshuffle has stored its new array.
Reshuffled(obj) == [obj EXCEPT !.remainingWords = "rem"]

\* A bug: the word is spliced out of allWords.
SplicedAllWords(obj) == obj.allWords

\* practice.js:23: the array splice is called on.
SplicedArray(obj) == obj.remainingWords

\* A bug: the drawn word is not stored.
CountedNotStored(obj, word) == [obj EXCEPT !.wordsSpoken = @ + 1]

\* A bug: the drawn word is not counted.
StoredNotCounted(obj, word) == [obj EXCEPT !.currentWord = word]

\* practice.js:25-26: the object once the drawn word is counted and stored.
Counted(obj, word) == [obj EXCEPT !.wordsSpoken = @ + 1, !.currentWord = word]

\* getNextWord(): reshuffle when the pool is empty, then splice a random
\* element out of the pool, count it, remember it and return it.
GetNextWord ==
    /\ Constructed
    /\ calls < MaxDraws
    /\ \E shuffled \in Refill(remainingWords, allWords) :
          LET obj == IF Len(remainingWords) = 0 THEN Reshuffled(this) ELSE this
              before == [heap EXCEPT ![obj.remainingWords] = shuffled]
              target == SplicedArray(obj)
          IN \E randomIndex \in RandomIndex(Len(before[obj.remainingWords])) :
                LET word == SpliceTaken(before[target], randomIndex) IN
                /\ heap' = [before EXCEPT ![target] = SpliceOut(@, randomIndex)]
                /\ this' = Counted(obj, word)
                /\ lastCall' = [op |-> "getNextWord", val |-> word, error |-> Null]
                /\ calls' = calls + 1
                /\ drawn' = IF Len(drawn) = Len(W) THEN <<word>> ELSE Append(drawn, word)
    /\ UNCHANGED <<session, W>>

\* A call that only reads the session.
Read(op, val) ==
    /\ Constructed
    /\ lastCall' = [op |-> op, val |-> val, error |-> Null]
    /\ UNCHANGED <<heap, session, this, W, calls, drawn>>

GetTotalWords == Read("getTotalWords", getTotalWords)

GetWordsSpoken == Read("getWordsSpoken", getWordsSpoken)

GetRemainingCount == Read("getRemainingCount", getRemainingCount)

GetCurrentWord == Read("getCurrentWord", getCurrentWord)

HasCurrentWord == Read("hasCurrentWord", hasCurrentWord)

\* A bug: reset keeps the pool as it is.
ResetPoolKept(pool, all) == {pool}

\* practice.js:64: the arrays reset can store as the new pool.
ResetPool(pool, all) == shuffle(all)

\* A bug: reset leaves the current word in place.
ClearedCounterOnly(obj) == [obj EXCEPT !.remainingWords = "rem", !.wordsSpoken = 0]

\* A bug: reset leaves the counter as it is.
ClearedWordOnly(obj) == [obj EXCEPT !.remainingWords = "rem", !.currentWord = Null]

\* practice.js:64-66: the object once reset has stored the new pool and
\* cleared the counter and the current word.
Cleared(obj) ==
    [obj EXCEPT !.remainingWords = "rem", !.wordsSpoken = 0, !.currentWord = Null]

\* reset(): a fresh shuffle of allWords, counter to 0, current word cleared.
Reset ==
    /\ Constructed
    /\ \E shuffled \in ResetPool(remainingWords, allWords) :
          /\ heap' = [heap EXCEPT !["rem"] = shuffled]
          /\ this' = Cleared(this)
    /\ lastCall' = [op |-> "reset", val |-> Null, error |-> Null]
    /\ calls' = 0
    /\ drawn' = <<>>
    /\ UNCHANGED <<session, W>>

\* App.repeatWord(): returns at once without a session or a current word;
\* otherwise hands getCurrentWord() to SpeechModule.speak, or to
\* showWordAsFallback when there is no speech module.  val is the word
\* handed over, Undefined after the early return.
RepeatWord ==
    /\ lastCall' = [op |-> "repeatWord",
                    val |-> IF ~Constructed \/ ~hasCurrentWord
                            THEN Undefined ELSE getCurrentWord,
                    error |-> Null]
    /\ UNCHANGED <<heap, session, this, W, calls, drawn>>

\* The caller keeps its array and changes it after the constructor returned:
\* words[0] = w, or words.pop().
CallerChangesArray ==
    /\ Len(heap["arg"]) > 0
    /\ \/ \E w \in Words :
            /\ w # heap["arg"][1]
            /\ heap' = [heap EXCEPT !["arg"][1] = w]
       \/ heap' = [heap EXCEPT !["arg"] = SubSeq(@, 1, Len(@) - 1)]
    /\ lastCall' = [op |-> "callerChangesArray", val |-> Null, error |-> Null]
    /\ UNCHANGED <<session, this, W, calls, drawn>>

\* The caller drops its session (as App.retakePicture does with
\* practiceSession = null); the session's arrays become unreachable.
Discard ==
    /\ Constructed
    /\ session' = Null
    /\ this' = NoObject
    /\ heap' = [heap EXCEPT !["all"] = <<>>, !["rem"] = <<>>]
    /\ lastCall' = [op |-> "discard", val |-> Null, error |-> Null]
    /\ W' = <<>>
    /\ calls' = 0
    /\ drawn' = <<>>

----------------------------------------------------------------------------
(* The app: public/js/app.js with SpeechModule.speak of public/js/speech.js.
   App.practiceSession is session, the array App.extractedWords is
   heap["arg"].  The page has every element app.js looks up.  Handlers run
   in any order, as they do when called on window.app. *)

Views == {"camera", "processing", "confirmation", "practice"}

\* A page that loaded every script, in a browser that can speak.
EveryModule ==
    [ocrModule |-> TRUE, practiceModule |-> TRUE, speechModule |-> TRUE,
     synthesis |-> TRUE]

\* The pages followed: every script loaded, or one thing missing.
Envs ==
    {EveryModule,
     [EveryModule EXCEPT !.ocrModule = FALSE],
     [EveryModule EXCEPT !.practiceModule = FALSE],
     [EveryModule EXCEPT !.speechModule = FALSE],
     [EveryModule EXCEPT !.synthesis = FALSE]}

Event(op, word, error) == [op |-> op, word |-> word, error |-> error]

\* new App(): the constructor and init().
PageLoaded(e) ==
    /\ currentView = "camera"
    /\ page = [repeatDisabled |-> TRUE, counter |-> <<>>, wordDisplay |-> Null,
               wordShown |-> FALSE]
    /\ utterances = <<>>
    /\ extracting = 0
    /\ event = Event("load", Null, Null)
    /\ env = e

\* showWordAsFallback(word, error): the page once it has run.
ShownAsFallback(pg, word) ==
    [pg EXCEPT !.wordDisplay = word, !.wordShown = TRUE]

\* A bug: updateWordCounter leaves the counter as it is.
CounterLeft(pg, has, obj, all) == pg

\* updateWordCounter(): the page once it has run for the session obj, or for
\* no session when has is FALSE.
CounterUpdated(pg, has, obj, all) ==
    IF ~has THEN pg ELSE [pg EXCEPT !.counter = <<obj.wordsSpoken, Len(all)>>]

\* A bug: the fallback shows the session's current word.
FallbackWordCurrent(word, current) == current

\* The word the error callback hands to showWordAsFallback: the word of its
\* closure, which is the word speak was called with.
FallbackWord(word, current) == word

\* The ways SpeechModule.speak(word, ...) can go before it returns:
\*   "missing"     typeof SpeechModule === 'undefined'
\*   "unsupported" init() found no speechSynthesis: onError is called
\*   "threw"       synth.speak(utterance) threw: onError is called
\*   "queued"      the utterance is with the synthesizer
SpeakOutcomes ==
    IF ~env.speechModule THEN {"missing"}
    ELSE IF ~env.synthesis THEN {"unsupported"}
    ELSE {"threw", "queued"}

\* The page and the utterances once speak(word, ...) has returned with
\* outcome how; counts tells the utterance of speakNextWord, whose success
\* callback updates the counter, from that of repeatWord.
Spoken(pg, word, counts, how) ==
    IF how = "queued"
    THEN [page |-> pg, utterances |-> Append(utterances, [word |-> word, counts |-> counts])]
    ELSE [page |-> ShownAsFallback(pg, word), utterances |-> utterances]

\* A captured image arrives: handleImageCaptured(imageData) up to
\* await OCRModule.extractWords(...), or through its catch block when there
\* is no OCR module.
ImageCaptured ==
    /\ IF env.ocrModule
       THEN /\ extracting < MaxInFlight
            /\ extracting' = extracting + 1
            /\ currentView' = "processing"
            /\ event' = Event("handleImageCaptured", Null, Null)
       ELSE /\ currentView' = "camera"
            /\ event' = Event("handleImageCaptured", Null,
                              "Failed to process image: OCR module not loaded")
            /\ UNCHANGED extracting
    /\ UNCHANGED <<vars, page, utterances, env>>

\* The arrays extractWords is followed returning: no word, one word, two
\* different words.
ExtractedLists == {<<>>, <<WordSeq[1]>>, <<WordSeq[1], WordSeq[2]>>}

\* A bug: the test is `words` alone, which an empty array passes.
DetectedWhenArray(words) == TRUE

\* words && words.length > 0
Detected(words) == Len(words) > 0

\* The rest of handleImageCaptured: extractWords has thrown, or has
\* returned the array data.words.
Extracted ==
    /\ extracting > 0
    /\ extracting' = extracting - 1
    /\ \/ /\ currentView' = "camera"
          /\ event' = Event("extracted", Null, "Failed to process image")
          /\ UNCHANGED vars
       \/ \E words \in ExtractedLists :
            IF Detected(words)
            THEN /\ heap' = [heap EXCEPT !["arg"] = words]
                 /\ currentView' = "confirmation"
                 /\ event' = Event("extracted", Null, Null)
                 /\ UNCHANGED <<session, this, lastCall, W, calls, drawn>>
            ELSE /\ currentView' = "camera"
                 /\ event' = Event("extracted", Null, "No words detected")
                 /\ UNCHANGED vars
    /\ UNCHANGED <<page, utterances, env>>

\* A bug: startPractice leaves the repeat button as the session before left it.
RepeatLeftAtStart(pg) == pg

\* app.js:177-181: the repeat button once startPractice has disabled it.
RepeatDisabledAtStart(pg) == [pg EXCEPT !.repeatDisabled = TRUE]

\* A bug: startPractice without its test for an empty list.
NothingToPracticeNever(words) == FALSE

\* this.extractedWords.length === 0
NothingToPractice(words) == Len(words) = 0

\* startPractice()
StartPractice ==
    /\ IF NothingToPractice(heap["arg"])
       THEN /\ event' = Event("startPractice", Null, "No words available for practice")
            /\ UNCHANGED <<vars, currentView, page>>
       ELSE IF ~env.practiceModule
       THEN /\ event' = Event("startPractice", Null, "Practice module not loaded")
            /\ UNCHANGED <<vars, currentView, page>>
       ELSE /\ Construct("arg", heap["arg"])
            /\ IF lastCall'.error # Null
               THEN /\ event' = Event("startPractice", Null, lastCall'.error)
                    /\ UNCHANGED <<currentView, page>>
               ELSE /\ event' = Event("startPractice", Null, Null)
                    /\ currentView' = "practice"
                    /\ page' = RepeatDisabledAtStart(
                                   CounterUpdated(page, TRUE, this', heap'[this'.allWords]))
    /\ UNCHANGED <<utterances, extracting, env>>

\* speakNextWord()
SpeakNextWord ==
    /\ IF ~Constructed
       THEN /\ event' = Event("speakNextWord", Null, Null)
            /\ UNCHANGED <<vars, page, utterances>>
       ELSE /\ calls < MaxSpoken
            /\ GetNextWord
            /\ \E how \in SpeakOutcomes :
                 LET word == lastCall'.val
                     spoken == Spoken([page EXCEPT !.repeatDisabled = FALSE],
                                      word, TRUE, how)
                 IN /\ how = "queued" => Len(utterances) < MaxUtterances
                    /\ page' = CounterUpdated(spoken.page, TRUE, this',
                                              heap'[this'.allWords])
                    /\ utterances' = spoken.utterances
                    /\ event' = Event("speakNextWord", word,
                                      IF how = "queued" THEN Null ELSE how)
    /\ UNCHANGED <<currentView, extracting, env>>

\* repeatWord()
RepeatWordAgain ==
    /\ RepeatWord
    /\ IF lastCall'.val = Undefined
       THEN /\ event' = Event("repeatWord", Null, Null)
            /\ UNCHANGED <<page, utterances>>
       ELSE \E how \in SpeakOutcomes :
                 LET word == lastCall'.val
                     spoken == Spoken(page, word, FALSE, how)
                 IN /\ how = "queued" => Len(utterances) < MaxUtterances
                    /\ page' = spoken.page
                    /\ utterances' = spoken.utterances
                    /\ event' = Event("repeatWord", word,
                                      IF how = "queued" THEN Null ELSE how)
    /\ UNCHANGED <<currentView, extracting, env>>

\* s without its i-th element
Without(s, i) == SubSeq(s, 1, i - 1) \o SubSeq(s, i + 1, Len(s))

\* utterance.onend: the success callback, which for speakNextWord is
\* updateWordCounter().
UtteranceEnds ==
    \E i \in DOMAIN utterances :
        /\ utterances' = Without(utterances, i)
        /\ page' = CounterUpdated(page, utterances[i].counts /\ Constructed, this,
                                  IF Constructed THEN allWords ELSE <<>>)
        /\ event' = Event("utteranceEnd", utterances[i].word, Null)
        /\ UNCHANGED <<vars, currentView, extracting, env>>

\* utterance.onerror, which a later synth.cancel() brings about as well: the
\* error callback, showWordAsFallback(word, error).
UtteranceFails ==
    \E i \in DOMAIN utterances :
        /\ utterances' = Without(utterances, i)
        /\ page' = ShownAsFallback(page,
                      FallbackWord(utterances[i].word,
                                   IF Constructed THEN getCurrentWord ELSE Null))
        /\ event' = Event("utteranceError", utterances[i].word, "error")
        /\ UNCHANGED <<vars, currentView, extracting, env>>

\* The timer of showWordAsFallback hides the word display.
HideWord ==
    /\ page.wordShown
    /\ page' = [page EXCEPT !.wordShown = FALSE]
    /\ event' = Event("hideWord", Null, Null)
    /\ UNCHANGED <<vars, currentView, utterances, extracting, env>>

\* A bug: retakePicture keeps the session.
RetakenSessionKept(current) == current

\* this.practiceSession = null
RetakenSession(current) == Null

\* A bug: retakePicture without showView('camera').
RetakenViewKept(current) == current

\* this.showView('camera') at the end of retakePicture: the view shown.
RetakenView(current) == "camera"

\* retakePicture(), and newSheet(), which calls it.
RetakePicture ==
    /\ session' = RetakenSession(session)
    /\ IF session' = Null
       THEN /\ heap' = [r \in DOMAIN heap |-> <<>>]
            /\ this' = NoObject
            /\ W' = <<>>
            /\ calls' = 0
            /\ drawn' = <<>>
       ELSE /\ heap' = [heap EXCEPT !["arg"] = <<>>]
            /\ UNCHANGED <<this, W, calls, drawn>>
    /\ lastCall' = [op |-> "discard", val |-> Null, error |-> Null]
    /\ currentView' = RetakenView(currentView)
    /\ \E op \in {"retakePicture", "newSheet"} : event' = Event(op, Null, Null)
    /\ UNCHANGED <<page, utterances, extracting, env>>

\* A step of the app, which runs in the browser.
InApp == UNCHANGED <<serverVars, histVars>>

\* Strings the endpoint takes apart are sequences of characters; a header or
\* body field that is not there is Absent.
Absent == <<Undefined>>

\* !value of JavaScript, for a string or undefined
Falsy(str) == str = Absent \/ str = <<>>

NoRequest ==
    [method |-> "", origin |-> Absent, xff |-> Absent, realIp |-> Absent,
     hasKey |-> FALSE, imageData |-> Absent]

NoValue == [type |-> "undefined", entries |-> <<>>]

NoOutcome == [kind |-> "", message |-> Absent, value |-> NoValue]

NoResponse == [status |-> 0, error |-> "", words |-> <<>>]

\* The endpoint before any request.
ServerInit ==
    /\ rateLimitMap = [k \in {} |-> [timestamps |-> <<>>]]
    /\ now = 0
    /\ rateLimit = [ip |-> <<>>, allowed |-> TRUE, remaining |-> 0, resetIn |-> 0]
    /\ res = NoResponse
    /\ served = [req |-> NoRequest, key |-> <<>>, rateChecked |-> FALSE,
                 calledModel |-> FALSE, pending |-> FALSE, model |-> NoOutcome]
    /\ admitted = [k \in {} |-> <<>>]

\* A step of the practice session, which runs in the browser.
InBrowser == UNCHANGED <<serverVars, appVars, histVars>>

Next ==
    \/ Constructor /\ InBrowser
    \/ Discard /\ InBrowser
    \/ GetNextWord /\ InBrowser
    \/ GetTotalWords /\ InBrowser
    \/ GetWordsSpoken /\ InBrowser
    \/ GetRemainingCount /\ InBrowser
    \/ GetCurrentWord /\ InBrowser
    \/ HasCurrentWord /\ InBrowser
    \/ Reset /\ InBrowser
    \/ RepeatWord /\ InBrowser
    \/ CallerChangesArray /\ InBrowser

SessionInit == Init /\ ServerInit /\ PageLoaded(EveryModule) /\ NoHistory

Spec == SessionInit /\ [][Next]_allVars

----------------------------------------------------------------------------
(* The session followed through its cycles, the word returned before the
   last one being remembered *)

\* The step starts the history of returned words afresh.
Forgotten == previous' = Null /\ UNCHANGED <<chosen, denial, wordList, overlap, serverVars, appVars>>

\* The step is a getNextWord call: the word that was current is remembered.
Remembered ==
    /\ previous' = this.currentWord
    /\ UNCHANGED <<chosen, denial, wordList, overlap, serverVars, appVars>>

CycleNext ==
    \/ Constructor /\ Forgotten
    \/ GetNextWord /\ Remembered
    \/ Reset /\ Forgotten
    \/ Discard /\ Forgotten

CycleSpec == SessionInit /\ [][CycleNext]_allVars

----------------------------------------------------------------------------
(* shuffle on its own: the argument is any array of words *)

Arrays == UNION {[1..n -> Words] : n \in 0..MaxLen}

\* An array to shuffle is at hand (reference "arg"); no session, no call yet.
ShuffleInit ==
    /\ \E array \in Arrays :
           heap = [r \in {"arg", "all", "rem"} |-> IF r = "arg" THEN array ELSE <<>>]
    /\ session = Null
    /\ this = NoObject
    /\ lastCall = [op |-> "none", val |-> Null, error |-> Null]
    /\ W = heap["arg"]
    /\ calls = 0
    /\ drawn = <<>>
    /\ ServerInit
    /\ PageLoaded(EveryModule)
    /\ NoHistory

\* shuffle(array), array being the array at "arg": `[...array]` makes the
\* array the loop swaps in and the call returns (reference "rem"); the
\* call returns that reference.
Shuffle ==
    /\ lastCall.op = "none"
    /\ \E js \in ChoiceSeqs(Len(heap["arg"])) :
           LET shuffled == SpreadInto("rem", "arg")
           IN  /\ heap' = [heap EXCEPT ![shuffled] = shuffleBy(heap["arg"], js)]
               /\ lastCall' = [op |-> "shuffle", val |-> shuffled, error |-> Null]
               /\ chosen' = js
    /\ UNCHANGED <<session, this, W, calls, drawn, previous, denial, wordList, overlap,
                   serverVars, appVars>>

ShuffleNext == Shuffle

ShuffleSpec == ShuffleInit /\ [][ShuffleNext]_allVars

----------------------------------------------------------------------------
(* The rate limiter of the extract-words endpoint *)

RATE_LIMIT_WINDOW_MS == 60 * 1000

MAX_REQUESTS_PER_WINDOW == 10

\* array.filter(t => t > windowStart)
NewerThan(timestamps, windowStart) ==
    LET Newer(t) == t > windowStart IN SelectSeq(timestamps, Newer)

\* The clean-up loop of checkRateLimit: every entry keeps the timestamps
\* inside the window, and an entry left without timestamps is deleted.
CleanedUp(map, windowStart) ==
    LET live == {k \in DOMAIN map : NewerThan(map[k].timestamps, windowStart) # <<>>}
    IN [k \in live |-> [timestamps |-> NewerThan(map[k].timestamps, windowStart)]]

\* map.set(key, entry)
MapSet(map, key, entry) ==
    [k \in DOMAIN map \cup {key} |-> IF k = key THEN entry ELSE map[k]]

\* Math.ceil(ms / 1000)
CeilSeconds(ms) == IF ms % 1000 = 0 THEN ms \div 1000 ELSE (ms \div 1000) + 1

\* A bug: > in place of >=, which lets an eleventh request through.
OverLimitStrict(timestamps) == Len(timestamps) > MAX_REQUESTS_PER_WINDOW

\* A bug: the request is pushed before the limit test, so that a denied
\* request counts too.
DeniedCounted(timestamps, t) == Append(timestamps, t)

\* The timestamps of the entry when the call returns allowed: false: the
\* return comes before the push.
Denied(timestamps, t) == timestamps

\* The limit test of checkRateLimit: entry.timestamps.length >= MAX_REQUESTS_PER_WINDOW.
OverLimit(timestamps) == Len(timestamps) >= MAX_REQUESTS_PER_WINDOW

\* checkRateLimit(ip) called when Date.now() is t: the map it leaves and
\* the object it returns.
checkRateLimit(map, ip, t) ==
    LET windowStart == t - RATE_LIMIT_WINDOW_MS
        cleaned == CleanedUp(map, windowStart)
        entry == IF ip \in DOMAIN cleaned THEN cleaned[ip] ELSE [timestamps |-> <<>>]
    IN IF OverLimit(entry.timestamps)
       THEN [map |-> MapSet(cleaned, ip, [timestamps |-> Denied(entry.timestamps, t)]),
             allowed |-> FALSE,
             remaining |-> 0,
             resetIn |-> CeilSeconds(entry.timestamps[1] + RATE_LIMIT_WINDOW_MS - t)]
       ELSE LET pushed == Append(entry.timestamps, t) IN
            [map |-> MapSet(cleaned, ip, [timestamps |-> pushed]),
             allowed |-> TRUE,
             remaining |-> MAX_REQUESTS_PER_WINDOW - Len(pushed),
             resetIn |-> 60]

\* The history of admitted requests once checkRateLimit(ip) returned r at time t.
Admit(log, ip, t, r) ==
    IF r.allowed
    THEN [k \in DOMAIN log \cup {ip} |->
            IF k = ip THEN Append(IF ip \in DOMAIN log THEN log[ip] ELSE <<>>, t)
            ELSE log[k]]
    ELSE log

AdmittedOf(ip) == IF ip \in DOMAIN admitted THEN admitted[ip] ELSE <<>>

\* The keys the limiter is followed for: one busy client and another client.
BusyKey == <<"1">>
OtherKey == <<"2">>
Keys == {BusyKey, OtherKey}

\* The model follows a key until it has had its share of admitted requests.
Followed(ip) ==
    Len(AdmittedOf(ip)) < (IF ip = BusyKey THEN MaxAdmitted ELSE MaxOtherAdmitted)

\* One call of checkRateLimit(ip).
CheckRateLimit ==
    \E ip \in Keys :
        LET r == checkRateLimit(rateLimitMap, ip, now) IN
        /\ Followed(ip) \/ ~r.allowed
        /\ rateLimitMap' = r.map
        /\ rateLimit' = [ip |-> ip, allowed |-> r.allowed,
                         remaining |-> r.remaining, resetIn |-> r.resetIn]
        /\ admitted' = Admit(admitted, ip, now, r)
        /\ UNCHANGED <<now, res, served>>

\* Time passes: Date.now() does not go backwards.
Tick ==
    /\ now < MaxTicks * TickMs
    /\ now' = now + TickMs
    /\ UNCHANGED <<rateLimitMap, rateLimit, res, served, admitted>>

\* A step of the endpoint, which runs on the server.
OnServer == UNCHANGED <<vars, appVars, histVars>>

RateNext ==
    \/ CheckRateLimit /\ OnServer
    \/ Tick /\ OnServer

RateSpec == SessionInit /\ [][RateNext]_allVars

\* The call just made is noted: a denial joins those pending for its key,
\* an admitted request settles them.
Noted ==
    LET ip == rateLimit'.ip
        was == denial[ip]
    IN denial' =
          [denial EXCEPT ![ip] =
              IF rateLimit'.allowed
              THEN [pending |-> {}, honoured |-> was.pending]
              ELSE [was EXCEPT !.pending =
                       @ \cup {[at |-> now, resetIn |-> rateLimit'.resetIn]}]]

\* The limiter followed with the denials of each key kept.
RetryNext ==
    \/ CheckRateLimit /\ Noted
          /\ UNCHANGED <<vars, appVars, previous, chosen, wordList, overlap>>
    \/ Tick /\ OnServer

RetrySpec == SessionInit /\ [][RetryNext]_allVars

----------------------------------------------------------------------------
(* Strings of the extract-words endpoint *)

Letters == {"a", "A"}

\* The characters words are made of: letters of both cases, a digit, a
\* punctuation mark that cleanWord strips, and white space.
Chars == Letters \cup {"1", ".", " "}

WhiteSpace == {" "}

\* [\.\,\:\;\!\?]
Punctuation == {".", ",", ":", ";", "!", "?"}

RECURSIVE LeftStrip(_, _)
\* str without its longest prefix of characters of cs
LeftStrip(str, cs) ==
    IF str # <<>> /\ Head(str) \in cs THEN LeftStrip(Tail(str), cs) ELSE str

RECURSIVE RightStrip(_, _)
\* str without its longest suffix of characters of cs
RightStrip(str, cs) ==
    IF str # <<>> /\ str[Len(str)] \in cs
    THEN RightStrip(SubSeq(str, 1, Len(str) - 1), cs)
    ELSE str

\* str.trim()
Trim(str) == RightStrip(LeftStrip(str, WhiteSpace), WhiteSpace)

\* str.toLowerCase()
ToLowerCase(str) == [i \in DOMAIN str |-> IF str[i] = "A" THEN "a" ELSE str[i]]

\* str.includes(part)
Includes(str, part) ==
    \E i \in 1..(Len(str) - Len(part) + 1) : SubSeq(str, i, i + Len(part) - 1) = part

\* str.startsWith(part)
StartsWith(str, part) == Len(part) <= Len(str) /\ SubSeq(str, 1, Len(part)) = part

\* str.endsWith(part)
EndsWith(str, part) ==
    Len(part) <= Len(str) /\ SubSeq(str, Len(str) - Len(part) + 1, Len(str)) = part

\* str.slice(n)
Slice(str, n) == SubSeq(str, n + 1, Len(str))

RECURSIVE Split(_, _)
\* str.split(c) for a one-character separator: the parts, in order
Split(str, c) ==
    IF \A i \in DOMAIN str : str[i] # c
    THEN <<str>>
    ELSE LET at == CHOOSE i \in DOMAIN str :
                      str[i] = c /\ \A j \in 1..(i - 1) : str[j] # c
         IN <<SubSeq(str, 1, at - 1)>> \o Split(Slice(str, at), c)

\* How many characters of str are matched by /[a-zA-Z]/g.
LetterCount(str) == Cardinality({i \in DOMAIN str : str[i] \in Letters})

\* A bug: a cleanWord that leaves the case of the word as it is.
cleanWordKeepingCase(word) ==
    IF word.type # "string"
    THEN <<>>
    ELSE RightStrip(LeftStrip(Trim(word.chars), Punctuation), Punctuation)

\* cleanWord(word), for an entry of the array the model returned
cleanWord(word) ==
    IF word.type # "string"
    THEN <<>>
    ELSE ToLowerCase(RightStrip(LeftStrip(Trim(word.chars), Punctuation), Punctuation))

\* isValidWord(word), for a cleaned word
isValidWord(word) ==
    IF word = <<>> \/ Len(word) < 2
    THEN FALSE
    ELSE IF ~\E i \in DOMAIN word : word[i] \in Letters
    THEN FALSE
    ELSE IF 2 * LetterCount(word) < Len(word)
    THEN FALSE
    ELSE TRUE

\* words.map(word => cleanWord(word)).filter(word => isValidWord(word))
CleanAndValidate(words) ==
    SelectSeq([i \in DOMAIN words |-> cleanWord(words[i])], isValidWord)

----------------------------------------------------------------------------
(* The extract-words handler *)

\* A configuration of ALLOWED_ORIGINS: one origin to match exactly and one
\* wildcard entry.
ExactOrigin == <<"s", ":", "/", "/", "a">>
WildcardEntry == <<"*", ".", "b">>
ALLOWED_ORIGINS == <<ExactOrigin, WildcardEntry>>

isOriginAllowed(origin) ==
    IF Falsy(origin)
    THEN FALSE
    ELSE \E i \in DOMAIN ALLOWED_ORIGINS :
            LET allowed == ALLOWED_ORIGINS[i] IN
            \/ allowed = origin
            \/ /\ StartsWith(allowed, <<"*", ".">>)
               /\ EndsWith(origin, Slice(allowed, 2))
               /\ Includes(origin, <<":", "/", "/">>)

Unknown == <<"u", "n", "k", "n", "o", "w", "n">>

\* getRateLimitKey(req)
getRateLimitKey(req) ==
    LET first == IF req.xff = Absent THEN Absent ELSE Trim(Split(req.xff, ",")[1])
    IN IF ~Falsy(first) THEN first
       ELSE IF ~Falsy(req.realIp) THEN req.realIp
       ELSE Unknown

Response(status, error) == [status |-> status, error |-> error, words |-> <<>>]

\* A bug: a handler without the origin checks.
ForbiddenNever(origin) == ""

\* The origin validation of the handler: the error it answers with, or ""
\* when the origin passes.
Forbidden(origin) ==
    IF Falsy(origin) THEN "Forbidden: Missing origin header"
    ELSE IF ~isOriginAllowed(origin) THEN "Forbidden: Unauthorized origin"
    ELSE ""

\* The answer the handler gives before it gets to the rate limiter, or
\* NoResponse when it gets there.
BeforeRateLimit(req) ==
    IF req.method = "OPTIONS" THEN Response(204, "")
    ELSE IF req.method # "POST" THEN Response(405, "Method not allowed")
    ELSE IF Forbidden(req.origin) # "" THEN Response(403, Forbidden(req.origin))
    ELSE NoResponse

\* imageData.includes(',') ? imageData.split(',')[1] : imageData
base64Data(imageData) ==
    IF Includes(imageData, <<",">>) THEN Split(imageData, ",")[2] ELSE imageData

\* The answer the handler gives after checkRateLimit returned r and before
\* it calls the model, or NoResponse when it calls the model.
AfterRateLimit(req, r) ==
    IF ~r.allowed
    THEN Response(429, "Too many requests. Please wait a minute before trying again.")
    ELSE IF ~req.hasKey
    THEN Response(500, "Server configuration error: Missing API key")
    ELSE IF Falsy(req.imageData)
    THEN Response(400, "Missing imageData in request body")
    ELSE IF Falsy(base64Data(req.imageData))
    THEN Response(400, "Invalid image data")
    ELSE NoResponse

\* handler(req, res) up to its response or, when every check passed, up to
\* await generateText(...).  One request is followed at a time.
HandleRequest(req) ==
    /\ ~served.pending
    /\ IF BeforeRateLimit(req) # NoResponse
       THEN /\ res' = BeforeRateLimit(req)
            /\ served' = [req |-> req, key |-> <<>>, rateChecked |-> FALSE,
                          calledModel |-> FALSE, pending |-> FALSE, model |-> NoOutcome]
            /\ UNCHANGED <<rateLimitMap, rateLimit, admitted>>
       ELSE LET clientIp == getRateLimitKey(req)
                r == checkRateLimit(rateLimitMap, clientIp, now)
                passed == AfterRateLimit(req, r) = NoResponse
            IN /\ Followed(clientIp) \/ ~r.allowed
               /\ rateLimitMap' = r.map
               /\ rateLimit' = [ip |-> clientIp, allowed |-> r.allowed,
                                remaining |-> r.remaining, resetIn |-> r.resetIn]
               /\ admitted' = Admit(admitted, clientIp, now, r)
               /\ res' = AfterRateLimit(req, r)
               /\ served' = [req |-> req, key |-> clientIp, rateChecked |-> TRUE,
                             calledModel |-> passed, pending |-> passed,
                             model |-> NoOutcome]
    /\ UNCHANGED now

\* error.message?.includes(part), the message being a sequence of tokens
MessageIncludes(message, part) ==
    message # Absent /\ \E i \in DOMAIN message : message[i] = part

\* The catch block of the handler.
Caught(message) ==
    IF MessageIncludes(message, "401") \/ MessageIncludes(message, "API key")
    THEN Response(500, "Invalid API key")
    ELSE IF MessageIncludes(message, "429") \/ MessageIncludes(message, "quota")
    THEN Response(429, "API quota exceeded. Please try again later")
    ELSE Response(500, "Failed to process image")

\* What the handler answers once generateText has settled with out:
\*   "throws"   generateText rejected, with out.message
\*   "json"     the text is JSON, of value out.value
\*   "embedded" the text is not JSON but holds [...] that is JSON, an array
\*   "broken"   the text is not JSON and the [...] it holds is not either:
\*              the second JSON.parse throws, with out.message
\*   "prose"    the text is not JSON and holds no [...]
Settled(out) ==
    IF out.kind \in {"throws", "broken"} THEN Caught(out.message)
    ELSE IF out.kind = "prose"
    THEN Response(500, "Could not parse word list from API response")
    ELSE IF out.value.type # "array"
    THEN Response(500, "API did not return a valid word array")
    ELSE [status |-> 200, error |-> "", words |-> CleanAndValidate(out.value.entries)]

\* The rest of handler(req, res), after await generateText(...).
ModelResponds(out) ==
    /\ served.pending
    /\ res' = Settled(out)
    /\ served' = [served EXCEPT !.pending = FALSE, !.model = out]
    /\ UNCHANGED <<rateLimitMap, now, rateLimit, admitted>>

----------------------------------------------------------------------------
(* Requests and model answers *)

Methods == {"OPTIONS", "GET", "POST"}

\* No Origin header, an empty one, the two kinds of allowed origin, and an
\* origin that is not allowed.
Origins ==
    {Absent, <<>>, ExactOrigin, <<"s", ":", "/", "/", "x", ".", "b">>,
     <<"s", ":", "/", "/", "e">>}

\* x-forwarded-for and x-real-ip
Forwarded ==
    {[xff |-> <<"1">>, realIp |-> Absent],
     [xff |-> <<" ", "1", ",", "2">>, realIp |-> OtherKey],
     [xff |-> <<>>, realIp |-> OtherKey],
     [xff |-> Absent, realIp |-> Absent]}

\* No imageData, an empty one, bare base64, a data URL, a data URL without data.
Images == {Absent, <<>>, <<"A">>, <<"d", ",", "A">>, <<"d", ",">>}

\* A request that passes every check of the handler.
GoodRequest ==
    [method |-> "POST", origin |-> ExactOrigin, xff |-> <<"1">>, realIp |-> Absent,
     hasKey |-> TRUE, imageData |-> <<"d", ",", "A">>]

\* In how many respects req is not GoodRequest.
Deviations(req) ==
    (IF req.method # GoodRequest.method THEN 1 ELSE 0)
    + (IF req.origin # GoodRequest.origin THEN 1 ELSE 0)
    + (IF req.xff # GoodRequest.xff \/ req.realIp # GoodRequest.realIp THEN 1 ELSE 0)
    + (IF req.hasKey # GoodRequest.hasKey THEN 1 ELSE 0)
    + (IF req.imageData # GoodRequest.imageData THEN 1 ELSE 0)

\* The requests followed: GoodRequest, and every request with one or two
\* things wrong, so that every two checks of the handler meet in a request
\* that fails both.
Requests ==
    {req \in
        {[method |-> m, origin |-> o, xff |-> f.xff, realIp |-> f.realIp,
          hasKey |-> k, imageData |-> d] :
            m \in Methods, o \in Origins, f \in Forwarded, k \in BOOLEAN,
            d \in Images} :
        Deviations(req) < 3}

Messages == {Absent, <<"401">>, <<"quota">>, <<"timeout">>, <<"429", "API key">>}

StringEntry(chars) == [type |-> "string", chars |-> chars]

\* The strings of at most MaxWordLen characters.
Strings == UNION {[1..n -> Chars] : n \in 0..MaxWordLen}

\* Entries of a JSON array that are not strings.
OtherEntries ==
    {[type |-> "number", chars |-> <<>>], [type |-> "null", chars |-> <<>>]}

\* The entries arrays of several entries are made of.
SampleEntries ==
    OtherEntries \cup
    {StringEntry(<<"A", "a">>), StringEntry(<<" ", "a", "1", ".">>),
     StringEntry(<<"1">>), StringEntry(<<"a", "1", "1">>)}

\* The arrays the model answers with: any one string, and up to MaxEntries
\* of the sample entries.
ModelArrays ==
    {<<StringEntry(str)>> : str \in Strings}
    \cup UNION {[1..n -> SampleEntries] : n \in 0..MaxEntries}

ArrayOutcome(kind, entries) ==
    [kind |-> kind, message |-> Absent, value |-> [type |-> "array", entries |-> entries]]

Outcomes ==
    {[kind |-> k, message |-> m, value |-> NoValue] :
        k \in {"throws", "broken"}, m \in Messages}
    \cup {[kind |-> "prose", message |-> Absent, value |-> NoValue]}
    \cup {[kind |-> "json", message |-> Absent,
           value |-> [type |-> t, entries |-> <<>>]] : t \in {"object", "string"}}
    \cup {ArrayOutcome(k, <<StringEntry(<<"A", "a">>), StringEntry(<<"1">>)>>) :
            k \in {"json", "embedded"}}

HandlerNext ==
    \/ (\E req \in Requests : HandleRequest(req)) /\ OnServer
    \/ (\E out \in Outcomes : ModelResponds(out)) /\ OnServer

\* The timestamps of a key that has had all but one of the requests of its
\* window admitted at time 0.
AlmostSpent == [i \in 1..(MAX_REQUESTS_PER_WINDOW - 1) |-> 0]

\* The handler is followed on a server that has already admitted those
\* requests of BusyKey: its next request is the last the limiter admits.
HandlerInit ==
    /\ Init
    /\ rateLimitMap = [k \in {BusyKey} |-> [timestamps |-> AlmostSpent]]
    /\ now = 0
    /\ rateLimit = [ip |-> BusyKey, allowed |-> TRUE, remaining |-> 1, resetIn |-> 60]
    /\ res = NoResponse
    /\ served = [req |-> NoRequest, key |-> <<>>, rateChecked |-> FALSE,
                 calledModel |-> FALSE, pending |-> FALSE, model |-> NoOutcome]
    /\ admitted = [k \in {BusyKey} |-> AlmostSpent]
    /\ PageLoaded(EveryModule)
    /\ NoHistory

HandlerSpec == HandlerInit /\ [][HandlerNext]_allVars

CleanNext ==
    \/ HandleRequest(GoodRequest) /\ OnServer
    \/ (\E entries \in ModelArrays : ModelResponds(ArrayOutcome("json", entries)))
            /\ OnServer

CleanSpec == SessionInit /\ [][CleanNext]_allVars

----------------------------------------------------------------------------
(* The origin validation on its own: the Origin header is any short string *)

HostChars == {"a", "b", "x", "."}

Hosts == UNION {[1..n -> HostChars] : n \in 1..MaxHostLen}

\* The Origin headers put to the check: none, an empty one, a bare host,
\* and a scheme followed by a host.
OriginHeaders ==
    {Absent, <<>>} \cup Hosts \cup {<<"s", ":", "/", "/">> \o host : host \in Hosts}

\* A POST request reaches the origin validation of the handler, which
\* answers 403 or lets the request go on.
ValidateOrigin ==
    /\ \E origin \in OriginHeaders :
          LET req == [NoRequest EXCEPT !.method = "POST", !.origin = origin] IN
          /\ served' = [served EXCEPT !.req = req]
          /\ res' = BeforeRateLimit(req)
    /\ UNCHANGED <<rateLimitMap, now, rateLimit, admitted>>

OriginNext == ValidateOrigin /\ OnServer

OriginSpec == SessionInit /\ [][OriginNext]_allVars

----------------------------------------------------------------------------
(* The app from the load of the page *)

AppInit == Init /\ ServerInit /\ NoHistory /\ \E e \in Envs : PageLoaded(e)

AppNext ==
    \/ ImageCaptured /\ InApp
    \/ Extracted /\ InApp
    \/ StartPractice /\ InApp
    \/ SpeakNextWord /\ InApp
    \/ RepeatWordAgain /\ InApp
    \/ UtteranceEnds /\ InApp
    \/ UtteranceFails /\ InApp
    \/ HideWord /\ InApp
    \/ RetakePicture /\ InApp

AppSpec == AppInit /\ [][AppNext]_allVars

\* showConfirmation(words): the items of the list it builds, one for each
\* word, in order, with the word as its text.
WordListOf(words) == [i \in DOMAIN words |-> words[i]]

\* The list on the page once a handler has run: handleImageCaptured calls
\* showConfirmation with the array it has just stored in extractedWords;
\* no other handler touches the list.
Listed ==
    /\ wordList' = IF event'.op = "extracted" /\ event'.error = Null
                   THEN WordListOf(heap'["arg"])
                   ELSE wordList
    /\ UNCHANGED <<serverVars, previous, chosen, denial, overlap>>

\* The app followed from capture to practice, with the confirmation list.
CaptureNext ==
    \/ ImageCaptured /\ Listed
    \/ Extracted /\ Listed
    \/ StartPractice /\ Listed
    \/ SpeakNextWord /\ Listed
    \/ RetakePicture /\ Listed

CaptureSpec == AppInit /\ [][CaptureNext]_allVars

\* The extractions in flight once a handler has run, told apart by whether
\* they were in flight when startPractice created the session: the
\* extraction that completes is one of those when there is no other, and
\* may be one of those when there are both.
Overlapped ==
    /\ IF event'.op = "startPractice" /\ event'.error = Null
       THEN overlap' = [awaited |-> extracting, late |-> FALSE]
       ELSE IF event'.op \in {"retakePicture", "newSheet"}
       THEN overlap' = [awaited |-> 0, late |-> FALSE]
       ELSE IF event'.op = "extracted" /\ overlap.awaited > 0
       THEN \/ overlap' = [awaited |-> overlap.awaited - 1, late |-> TRUE]
            \/ /\ overlap.awaited < extracting
               /\ overlap' = [overlap EXCEPT !.late = FALSE]
       ELSE overlap' = [overlap EXCEPT !.late = FALSE]
    /\ UNCHANGED <<serverVars, previous, chosen, denial, wordList>>

\* The app followed with extractions that outlast the start of a session.
OverlapNext ==
    \/ ImageCaptured /\ Overlapped
    \/ Extracted /\ Overlapped
    \/ StartPractice /\ Overlapped
    \/ SpeakNextWord /\ Overlapped
    \/ RepeatWordAgain /\ Overlapped
    \/ RetakePicture /\ Overlapped

OverlapSpec == AppInit /\ [][OverlapNext]_allVars

----------------------------------------------------------------------------
(* Properties *)

SubBag(a, b) == \A w \in DOMAIN a : w \in DOMAIN b /\ a[w] <= b[w]

\* The word the last getNextWord call returned.
LastDrawn == drawn[Len(drawn)]

Accessors ==
    {"getCurrentWord", "hasCurrentWord", "getTotalWords", "getRemainingCount",
     "getWordsSpoken"}

Properties == {"allWords", "remainingWords", "wordsSpoken", "currentWord"}

\* C1: from a fresh or freshly reset session over W, duplicates counted, the
\* first Len(W) getNextWord calls return each entry of W exactly once: the
\* words returned so far never exceed W as a multiset, and after Len(W)
\* calls they are exactly the multiset of W.
C1_FirstCycleReturnsEachEntryOnce ==
    (Constructed /\ calls <= Len(W)) =>
        /\ Len(drawn) = calls
        /\ SubBag(BagOf(drawn), BagOf(W))
        /\ calls = Len(W) => BagOf(drawn) = BagOf(W)

C1_Witness ==
    /\ Constructed
    /\ W = <<"x", "x", "y">>
    /\ calls = Len(W)
    /\ BagOf(drawn) = BagOf(W)
    /\ lastCall.op = "getCurrentWord"

\* C2: getNextWord never fails: while a session exists the call is possible
\* and returns a word of W, and every block of Len(W) consecutive calls
\* (numbered k*n+1 .. (k+1)*n) returns exactly the multiset of W, the call
\* after a full block starting a new block.
C2_EveryCycleReturnsTheMultisetOfW ==
    Constructed =>
        /\ calls < MaxDraws => ENABLED GetNextWord
        /\ lastCall.op = "getNextWord" =>
              (lastCall.val \in Range(W) /\ lastCall.error = Null)
        /\ calls > 0 => Len(drawn) = ((calls - 1) % Len(W)) + 1
        /\ SubBag(BagOf(drawn), BagOf(W))
        /\ (calls > 0 /\ calls % Len(W) = 0) => BagOf(drawn) = BagOf(W)

C2_Witness ==
    /\ Constructed
    /\ Len(W) = 3
    /\ calls = 2 * Len(W)
    /\ BagOf(drawn) = BagOf(W)
    /\ lastCall.op = "getNextWord"

\* C3: once getNextWord has returned w, every getCurrentWord and
\* App.repeatWord returns or speaks w and leaves the session object and all
\* arrays (counter, pool contents and length, current word) as they were.
C3_RepeatReturnsLastDrawnAndChangesNothing ==
    [][(Constructed /\ calls > 0 /\ lastCall'.op \in {"getCurrentWord", "repeatWord"}) =>
          /\ lastCall'.val = LastDrawn
          /\ getWordsSpoken' = getWordsSpoken
          /\ remainingWords' = remainingWords
          /\ getCurrentWord' = getCurrentWord
          /\ this' = this
          /\ heap' = heap]_vars

C3_Witness ==
    /\ Constructed
    /\ calls = 2
    /\ lastCall.op = "repeatWord"
    /\ lastCall.val = LastDrawn
    /\ getRemainingCount = 1

\* C4: getWordsSpoken grows by exactly 1 on getNextWord and by 0 on every
\* accessor; it only ever drops on reset, to 0, and a new session starts at 0.
C4_CounterStepsByOne ==
    [][/\ (Constructed /\ Constructed') =>
            /\ lastCall'.op = "getNextWord" => getWordsSpoken' = getWordsSpoken + 1
            /\ lastCall'.op \in Accessors => getWordsSpoken' = getWordsSpoken
            /\ getWordsSpoken' < getWordsSpoken =>
                  (lastCall'.op = "reset" /\ getWordsSpoken' = 0)
       /\ (Constructed' /\ lastCall'.op \in {"constructor", "reset"}) =>
            getWordsSpoken' = 0]_vars

C4_Witness ==
    /\ Constructed
    /\ Len(W) = 3
    /\ lastCall.op = "getNextWord"
    /\ getWordsSpoken = 4

\* C5: a constructor call fails exactly when its argument is null, undefined
\* or an empty array; the failed call leaves the caller without a session
\* and the allocated object without any property.
C5_EmptyListIsRejectedBeforeInitialisation ==
    lastCall.op = "constructor" =>
        /\ (lastCall.error # Null) <=>
              (lastCall.val \in {Null, Undefined} \/ Len(heap["arg"]) = 0)
        /\ lastCall.error # Null => (session = Null /\ DOMAIN this = {})
        /\ lastCall.error = Null => (Constructed /\ DOMAIN this = Properties)

C5_Witness ==
    /\ lastCall.op = "constructor"
    /\ lastCall.val = "arg"
    /\ heap["arg"] = <<>>
    /\ lastCall.error # Null
    /\ session = Null

\* C6: before the first getNextWord since construction or reset, the current
\* word is absent: getCurrentWord returns null without an error,
\* hasCurrentWord is false, App.repeatWord hands nothing over, and none of
\* them changes the session or its arrays.
C6_RepeatBeforeFirstDrawIsAbsent ==
    /\ []((Constructed /\ calls = 0) =>
            /\ getCurrentWord = Null
            /\ ~hasCurrentWord
            /\ lastCall.op = "getCurrentWord" =>
                  (lastCall.val = Null /\ lastCall.error = Null)
            /\ lastCall.op = "hasCurrentWord" => lastCall.val = FALSE
            /\ lastCall.op = "repeatWord" => lastCall.val = Undefined)
    /\ [][(Constructed /\ calls = 0
             /\ lastCall'.op \in {"getCurrentWord", "hasCurrentWord", "repeatWord"}) =>
            (this' = this /\ heap' = heap /\ session' = session)]_vars

C6_Witness ==
    /\ Constructed
    /\ calls = 0
    /\ lastCall.op = "getCurrentWord"
    /\ lastCall.val = Null

\* C7: after reset the session is as after construction over the same list:
\* the pool is an array of its own holding a permutation of all the words,
\* the counter is 0, the current word is absent, allWords is what it was.
C7_ResetIsAsFreshConstruction ==
    lastCall.op = "reset" =>
        /\ Constructed
        /\ Len(remainingWords) = Len(W)
        /\ BagOf(remainingWords) = BagOf(allWords)
        /\ this.remainingWords # this.allWords
        /\ getWordsSpoken = 0
        /\ getCurrentWord = Null
        /\ allWords = W

C7_Witness ==
    /\ lastCall.op = "reset"
    /\ Len(W) = 3
    /\ remainingWords # W
    /\ BagOf(remainingWords) = BagOf(W)

\* C8: wordsSpoken is the number of getNextWord calls since construction or
\* the last reset, reshuffles included, so it exceeds getTotalWords once
\* more than Len(W) words were drawn.
C8_CounterCountsDrawsAcrossReshuffles ==
    Constructed =>
        /\ getWordsSpoken = calls
        /\ lastCall.op = "getWordsSpoken" => lastCall.val = calls
        /\ calls > Len(W) => getWordsSpoken > getTotalWords

C8_Witness ==
    /\ Constructed
    /\ Len(W) = 3
    /\ calls = 2 * Len(W) + 1
    /\ getWordsSpoken = 7
    /\ getTotalWords = 3

\* C9: allWords always holds the list the constructor was given, in order,
\* and getTotalWords its length, whatever was called since and whatever the
\* caller did to its own array afterwards.
C9_AllWordsNeverChanges ==
    Constructed =>
        /\ allWords = W
        /\ getTotalWords = Len(W)
        /\ lastCall.op = "getTotalWords" => lastCall.val = Len(W)

C9_Witness ==
    /\ Constructed
    /\ Len(W) = 3
    /\ heap["arg"] # W
    /\ calls > Len(W)
    /\ lastCall.op = "getTotalWords"
    /\ lastCall.val = 3

\* C10: getRemainingCount is always between 0 and getTotalWords.
C10_RemainingCountWithinTotal ==
    Constructed =>
        /\ 0 <= getRemainingCount
        /\ getRemainingCount <= getTotalWords
        /\ lastCall.op = "getRemainingCount" => lastCall.val \in 0..getTotalWords

C10_Witness ==
    /\ Constructed
    /\ Len(W) = 3
    /\ lastCall.op = "getRemainingCount"
    /\ lastCall.val = getTotalWords
    /\ calls = 0

Distinct(s) == \A i, j \in DOMAIN s : s[i] = s[j] => i = j

\* C11: the session has a current word exactly when wordsSpoken > 0; the
\* current word appears on the first getNextWord after construction or
\* reset and, once present, disappears only on reset (or with the session).
C11_CurrentWordPresentIffSpoken ==
    /\ [](Constructed => (hasCurrentWord <=> getWordsSpoken > 0))
    /\ [][(Constructed /\ Constructed') =>
            /\ (~hasCurrentWord /\ hasCurrentWord') =>
                  (lastCall'.op = "getNextWord" /\ calls = 0)
            /\ (hasCurrentWord /\ ~hasCurrentWord') => lastCall'.op = "reset"
            /\ (calls = 0 /\ lastCall'.op = "getNextWord") => hasCurrentWord']_vars

C11_Witness ==
    /\ Constructed
    /\ Len(W) = 2
    /\ calls = 3
    /\ lastCall.op = "hasCurrentWord"
    /\ lastCall.val = TRUE

\* C12: over a list of pairwise distinct words, the words returned within
\* one block of Len(W) calls are pairwise distinct; over a two-word list the
\* second draw returns the word the first did not, and the counter is 2.
C12_NoRepeatWithinCycle ==
    (Constructed /\ Distinct(W)) =>
        /\ Distinct(drawn)
        /\ (Len(W) = 2 /\ calls = 2) =>
              /\ drawn[2] # drawn[1]
              /\ {drawn[1], drawn[2]} = Range(W)
              /\ getWordsSpoken = 2

C12_Witness ==
    /\ Constructed
    /\ W = <<"x", "y">>
    /\ calls = 2
    /\ drawn = <<"y", "x">>
    /\ lastCall.op = "getNextWord"
    /\ getWordsSpoken = 2

\* C13: over a single-word list every getNextWord returns that word and
\* leaves the pool empty (so the next draw reshuffles), and the counter is
\* the number of draws.
C13_SingleWordList ==
    (Constructed /\ Len(W) = 1) =>
        /\ getWordsSpoken = calls
        /\ calls = 0 => getRemainingCount = 1
        /\ calls > 0 =>
              /\ getRemainingCount = 0
              /\ LastDrawn = W[1]
              /\ getCurrentWord = W[1]
        /\ lastCall.op = "getNextWord" => lastCall.val = W[1]

C13_Witness ==
    /\ Constructed
    /\ Len(W) = 1
    /\ calls = 3
    /\ lastCall.op = "getNextWord"
    /\ lastCall.val = W[1]
    /\ getRemainingCount = 0

\* C20: getNextWord takes the remaining count r to r - 1 when r > 0 and to
\* Len(W) - 1 when r = 0 (refill, then the draw); reset takes it to Len(W);
\* no other call on the session changes it.
C20_RemainingCountStep ==
    [][(Constructed /\ Constructed') =>
          /\ lastCall'.op = "getNextWord" =>
                getRemainingCount' =
                    IF getRemainingCount > 0 THEN getRemainingCount - 1 ELSE Len(W) - 1
          /\ lastCall'.op = "reset" => getRemainingCount' = Len(W)
          /\ getRemainingCount' # getRemainingCount =>
                lastCall'.op \in {"getNextWord", "reset"}]_vars

C20_Witness ==
    /\ Constructed
    /\ Len(W) = 3
    /\ calls = 4
    /\ lastCall.op = "getNextWord"
    /\ getRemainingCount = 2

\* How many of the timestamps lie in the window (t - 60 s, t].
InWindow(timestamps, t) ==
    Cardinality({i \in DOMAIN timestamps :
                    timestamps[i] > t - RATE_LIMIT_WINDOW_MS /\ timestamps[i] <= t})

\* The times t at which the number of timestamps in (t - 60 s, t] can be
\* largest: a window ending between two timestamps holds no more of them
\* than the window ending at the earlier of the two, so the windows ending
\* at a timestamp, and the one ending now, stand for all of them.
WindowEnds(timestamps) == Range(timestamps) \cup {now}

\* C14: for every key and every time t, at most 10 of the requests
\* checkRateLimit admitted for that key lie in (t - 60 s, t]; and whether a
\* call is admitted is decided by that key's own admitted requests alone:
\* it is admitted exactly when fewer than 10 of them lie in the window
\* ending now, whatever other keys have requested.
C14_TenPerWindowPerKey ==
    /\ [](\A k \in DOMAIN admitted : \A t \in WindowEnds(admitted[k]) :
            InWindow(admitted[k], t) <= MAX_REQUESTS_PER_WINDOW)
    /\ [][now' = now =>
            /\ rateLimit'.allowed <=>
                  InWindow(AdmittedOf(rateLimit'.ip), now) < MAX_REQUESTS_PER_WINDOW
            /\ rateLimit'.remaining =
                  MAX_REQUESTS_PER_WINDOW
                    - InWindow(IF rateLimit'.ip \in DOMAIN admitted'
                               THEN admitted'[rateLimit'.ip] ELSE <<>>, now)
            /\ \A k \in DOMAIN admitted \ {rateLimit'.ip} : admitted'[k] = admitted[k]
         ]_<<rateLimitMap, now, rateLimit, admitted>>

C14_Witness ==
    /\ now = TickMs
    /\ rateLimit.ip = BusyKey
    /\ ~rateLimit.allowed
    /\ InWindow(AdmittedOf(BusyKey), now) = MAX_REQUESTS_PER_WINDOW
    /\ InWindow(AdmittedOf(BusyKey), 0) \in 1..9
    /\ AdmittedOf(OtherKey) = <<TickMs>>

\* imageData holds non-empty base64 data: it is not empty and has no comma,
\* or its first comma is followed by a character that is not a comma.
YieldsBase64(imageData) ==
    /\ imageData # Absent
    /\ IF \E i \in DOMAIN imageData : imageData[i] = ","
       THEN \E i \in DOMAIN imageData :
               /\ imageData[i] = ","
               /\ \A j \in 1..(i - 1) : imageData[j] # ","
               /\ i < Len(imageData)
               /\ imageData[i + 1] # ","
       ELSE imageData # <<>>

\* The origin of the request is there and is the exact origin or a
\* subdomain of the wildcard entry.
OriginPasses(origin) ==
    /\ origin # Absent
    /\ origin # <<>>
    /\ isOriginAllowed(origin)

\* The check of the handler that stops req, in the order of the checks, the
\* rate limiter having answered allowed; "none" when req passes them all.
FirstFailedCheck(req, allowed) ==
    IF req.method = "OPTIONS" THEN "preflight"
    ELSE IF req.method # "POST" THEN "method"
    ELSE IF ~OriginPasses(req.origin) THEN "origin"
    ELSE IF ~allowed THEN "rate"
    ELSE IF ~req.hasKey THEN "key"
    ELSE IF ~YieldsBase64(req.imageData) THEN "image"
    ELSE "none"

StatusOf ==
    [c \in {"preflight", "method", "origin", "rate", "key", "image"} |->
        CASE c = "preflight" -> 204
          [] c = "method" -> 405
          [] c = "origin" -> 403
          [] c = "rate" -> 429
          [] c = "key" -> 500
          [] c = "image" -> 400]

\* C15: the handler calls the model only for a POST request whose origin is
\* present and allowed, that the rate limiter admitted, with an API key
\* configured and imageData that yields non-empty base64 data, and a request
\* is answered by the first of these checks it fails; the rate limiter runs
\* exactly for the requests that passed the method and origin checks, so a
\* step that answers 403 or 405 leaves the rate limiter's map, and the
\* requests admitted for every key, as they were.
C15_ModelCalledAfterEveryGate ==
    /\ [](served.req # NoRequest =>
            LET req == served.req
                failed == FirstFailedCheck(req, served.rateChecked /\ rateLimit.allowed)
            IN /\ served.calledModel <=> failed = "none"
               /\ served.calledModel =>
                     /\ req.method = "POST"
                     /\ OriginPasses(req.origin)
                     /\ served.rateChecked /\ rateLimit.allowed
                     /\ rateLimit.ip = served.key
                     /\ req.hasKey
                     /\ YieldsBase64(req.imageData)
               /\ failed # "none" => res.status = StatusOf[failed]
               /\ served.rateChecked <=> failed \notin {"preflight", "method", "origin"}
               /\ served.rateChecked => served.key = getRateLimitKey(req))
    /\ [][/\ res'.status \in {403, 405} => UNCHANGED <<rateLimitMap, admitted, rateLimit>>
          /\ ~served'.rateChecked => UNCHANGED <<rateLimitMap, admitted, rateLimit>>
         ]_serverVars

\* The model was called for the request that took the last place in the
\* window of BusyKey, and has answered with an array.
C15_Witness ==
    /\ served.calledModel
    /\ served.key = BusyKey
    /\ rateLimit.remaining = 0
    /\ Len(AdmittedOf(BusyKey)) = MAX_REQUESTS_PER_WINDOW
    /\ res.status = 200

\* The checks a word of a response meets: at least 2 characters, at least
\* one letter, and at least half of its characters letters.
MeetsChecks(word) ==
    /\ Len(word) >= 2
    /\ \E i \in DOMAIN word : word[i] \in Letters
    /\ 2 * Cardinality({i \in DOMAIN word : word[i] \in Letters}) >= Len(word)

IsLowerCase(word) == \A i \in DOMAIN word : word[i] # "A"

\* The places of the array the model returned whose entries survive.
Survivors(entries) ==
    {i \in DOMAIN entries :
        entries[i].type = "string" /\ MeetsChecks(cleanWord(entries[i]))}

\* The i-th smallest element of a set of numbers.
Ith(set, i) == CHOOSE k \in set : Cardinality({j \in set : j < k}) = i - 1

\* C18: every word of a 200 response is lowercase, has at least 2
\* characters, at least one letter, and at least half of its characters are
\* letters; the response holds the cleaned entries of the model's array that
\* are strings and meet these checks, one for one and in the order of the
\* array, and no other entry.
C18_ResponseWordsCleaned ==
    res.status = 200 =>
        LET entries == served.model.value.entries
            kept == Survivors(entries)
        IN /\ \A i \in DOMAIN res.words :
                 IsLowerCase(res.words[i]) /\ MeetsChecks(res.words[i])
           /\ Len(res.words) = Cardinality(kept)
           /\ \A i \in DOMAIN res.words :
                 res.words[i] = cleanWord(entries[Ith(kept, i)])

\* A response to an array of three entries, one of them not a string and
\* one in upper case, of which two different words are left.
C18_Witness ==
    /\ res.status = 200
    /\ Len(served.model.value.entries) = 3
    /\ \E i \in 1..3 : served.model.value.entries[i].type # "string"
    /\ \E i \in 1..3 : ~IsLowerCase(served.model.value.entries[i].chars)
    /\ Len(res.words) = 2
    /\ res.words[1] # res.words[2]

\* C16: a retakePicture or newSheet step leaves practiceSession null,
\* extractedWords empty and the camera view current; while practiceSession
\* is null, speakNextWord, repeatWord and the updateWordCounter of a finished
\* utterance change nothing of the session, the word list, the page or the
\* view, and hand nothing to the synthesizer; only startPractice makes
\* practiceSession a session again, and every startPractice that reports no
\* error leaves a session over the extracted words with wordsSpoken 0, no
\* current word and a full pool.
C16_NewSheetDiscardsSession ==
    [][/\ event'.op \in {"retakePicture", "newSheet"} =>
            /\ session' = Null
            /\ heap'["arg"] = <<>>
            /\ currentView' = "camera"
       /\ session = Null /\ event'.op \in {"speakNextWord", "repeatWord"} =>
            /\ UNCHANGED <<heap, session, this, currentView, page, utterances>>
            /\ event'.word = Null
       /\ session = Null /\ event'.op = "utteranceEnd" =>
            UNCHANGED <<heap, session, this, currentView, page>>
       /\ session = Null /\ session' # Null => event'.op = "startPractice"
       /\ event'.op = "startPractice" /\ event'.error = Null =>
            /\ session' = "obj"
            /\ this'.wordsSpoken = 0
            /\ this'.currentWord = Null
            /\ heap'[this'.allWords] = heap["arg"]
            /\ BagOf(heap'[this'.remainingWords]) = BagOf(heap["arg"])
      ]_allVars

\* A new sheet was started after a session had spoken a word of a
\* two-word list: the counter still reads 1 of 2.
C16_Witness ==
    /\ event.op = "newSheet"
    /\ session = Null
    /\ heap["arg"] = <<>>
    /\ currentView = "camera"
    /\ page.counter = <<1, 2>>

\* The reasons speaking a word fails.
SpeechFailures == {"missing", "unsupported", "threw", "error"}

\* C17: the text of the word display is written, or the display shown,
\* only in a step in which speaking a word failed: speakNextWord or
\* repeatWord without a speech module, without speech synthesis or with a
\* speak that threw, or the error event of an utterance; the word it then
\* shows is the word that was passed to that speak call; the end event of
\* an utterance leaves the word display as it was.
C17_WordShownOnlyAsFallback ==
    [][/\ (page'.wordDisplay # page.wordDisplay \/ (page'.wordShown /\ ~page.wordShown)) =>
            /\ event'.error \in SpeechFailures
            /\ page'.wordDisplay = event'.word
            /\ page'.wordShown
            /\ \/ /\ event'.op \in {"speakNextWord", "repeatWord"}
                  /\ event'.word = this'.currentWord
                  /\ event'.error = "missing" <=> ~env.speechModule
                  /\ event'.error = "unsupported" <=> env.speechModule /\ ~env.synthesis
                  /\ utterances' = utterances
               \/ /\ event'.op = "utteranceError"
                  /\ \E i \in DOMAIN utterances :
                        /\ utterances[i].word = event'.word
                        /\ utterances' = Without(utterances, i)
       /\ event'.op = "utteranceEnd" =>
            /\ page'.wordDisplay = page.wordDisplay
            /\ page'.wordShown = page.wordShown
       /\ event'.op \in {"speakNextWord", "repeatWord"} /\ event'.word # Null
          /\ event'.error = Null =>
            /\ page'.wordDisplay = page.wordDisplay
            /\ page'.wordShown = page.wordShown
            /\ utterances' = Append(utterances, utterances'[Len(utterances')])
            /\ utterances'[Len(utterances')].word = this'.currentWord
      ]_allVars

\* The error event of an earlier utterance arrived after the session had
\* moved on to another word: the display shows the earlier word.
C17_Witness ==
    /\ event.op = "utteranceError"
    /\ Constructed
    /\ getCurrentWord # event.word
    /\ page.wordDisplay = event.word
    /\ page.wordShown

\* C19: the PracticeSession constructor is only ever called with the
\* non-empty extractedWords and never throws; a startPractice while
\* extractedWords is empty reports "No words available for practice" and
\* leaves practiceSession, the session and the current view as they were.
C19_NeverAnEmptyList ==
    /\ [](lastCall.op = "constructor" =>
            /\ lastCall.val = "arg"
            /\ lastCall.error = Null
            /\ Len(W) > 0)
    /\ [][/\ event'.op = "startPractice" /\ heap["arg"] = <<>> =>
                /\ event'.error = "No words available for practice"
                /\ UNCHANGED <<vars, currentView, page>>
          /\ lastCall'.op = "constructor" /\ lastCall' # lastCall =>
                event'.op = "startPractice"
          /\ event'.op = "startPractice" /\ lastCall'.op = "constructor" =>
                /\ heap["arg"] # <<>>
                /\ W' = heap["arg"]
         ]_allVars

\* startPractice found no words after a sheet had been practised and a new
\* sheet started.
C19_Witness ==
    /\ event.op = "startPractice"
    /\ event.error = "No words available for practice"
    /\ heap["arg"] = <<>>
    /\ session = Null
    /\ page.counter # <<>>

\* C21: for a list of n >= 2 different words, whenever a cycle has just
\* ended (n, 2n, ... words returned since construction or reset), the next
\* getNextWord can return the word the last one returned: nothing keeps
\* the first word of a cycle from being the last word of the cycle before.
C21_RepeatAcrossReshuffle ==
    (/\ Constructed
     /\ Len(W) >= 2
     /\ Distinct(W)
     /\ calls > 0
     /\ calls % Len(W) = 0
     /\ calls < MaxDraws)
    => ENABLED (GetNextWord /\ lastCall'.val = this.currentWord)

\* The fourth word of a session over three different words is the same as
\* the third.
C21_Witness ==
    /\ Constructed
    /\ Distinct(W)
    /\ Len(W) = 3
    /\ calls = 4
    /\ lastCall.op = "getNextWord"
    /\ previous = lastCall.val
    /\ previous = getCurrentWord

\* The words a cycle has not returned yet: all of them when the cycle
\* before has just ended.
NotYetReturned ==
    IF Len(drawn) = Len(W) THEN Range(W) ELSE Range(W) \ Range(drawn)

\* C23: for a list of different words, at every point of every cycle each
\* word the cycle has not returned yet can be the next one getNextWord
\* returns; so a cycle, the first or a later one, can return the words in
\* any order.
C23_AnyOrderInEveryCycle ==
    (Constructed /\ Distinct(W) /\ calls < MaxDraws)
    => \A w \in NotYetReturned : ENABLED (GetNextWord /\ lastCall'.val = w)

\* The second cycle of a session over x, y, z returned z, y, x.
C23_Witness ==
    /\ Constructed
    /\ W = <<"x", "y", "z">>
    /\ calls = 6
    /\ drawn = <<"z", "y", "x">>

\* The orderings of an array: the arrays with the same elements, each as
\* many times.
Orderings(array) ==
    {p \in [1..Len(array) -> Range(array)] : BagOf(p) = BagOf(array)}

\* The sequences of values of j for which shuffle(array) returns p.
ChoicesYielding(array, p) ==
    {js \in ChoiceSeqs(Len(array)) : shuffleBy(array, js) = p}

\* What holds of the array at "arg" and of what a call has returned.
ShuffleReturnsOrdering ==
    LET array == heap["arg"]
    IN  /\ shuffle(array) = {shuffleBy(array, js) : js \in ChoiceSeqs(Len(array))}
        /\ shuffle(array) \subseteq Orderings(array)
        /\ Distinct(array) =>
              \A p \in Orderings(array) : Cardinality(ChoicesYielding(array, p)) = 1
        /\ lastCall.op = "shuffle" =>
              /\ lastCall.val # "arg"
              /\ heap[lastCall.val] = shuffleBy(array, chosen)
              /\ heap[lastCall.val] \in Orderings(array)
              /\ array = W

\* The call leaves the array it is given as it was.
ShuffleKeepsArgument ==
    lastCall'.op = "shuffle" /\ lastCall.op = "none" => heap'["arg"] = heap["arg"]

\* C22: shuffle(array) returns a new array that is an ordering of the
\* elements of array and leaves array as it was; the arrays it can return
\* are those the choices of j in [0, i], i = n-1 down to 1, yield; and for
\* n different elements each ordering is the result of exactly one
\* sequence of choices.
C22_ShuffleIsBijectiveOnChoices ==
    []ShuffleReturnsOrdering /\ [][ShuffleKeepsArgument]_allVars

\* shuffle(<<x, y, z>>) returned <<z, x, y>>, an ordering other than the
\* argument's and its reverse.
C22_Witness ==
    /\ lastCall.op = "shuffle"
    /\ heap["arg"] = <<"x", "y", "z">>
    /\ heap[lastCall.val] = <<"z", "x", "y">>
    /\ Len(chosen) = 2

\* C24: while a session exists, the pool is a sub-multiset of allWords, the
\* pool together with the words returned since the pool was last filled
\* (by the constructor, a reshuffle or reset) is the multiset of allWords,
\* and the word a getNextWord call returns, each word returned since the
\* last fill and the current word when there is one are elements of allWords.
C24_PoolAndReturnedMakeUpAllWords ==
    Constructed =>
        /\ SubBag(BagOf(remainingWords), BagOf(allWords))
        /\ BagOf(remainingWords \o drawn) = BagOf(allWords)
        /\ Range(drawn) \subseteq Range(allWords)
        /\ lastCall.op = "getNextWord" => lastCall.val \in Range(allWords)
        /\ hasCurrentWord => getCurrentWord \in Range(allWords)

\* In the second cycle over x, x, y one x has been returned; x and y are
\* left in the pool.
C24_Witness ==
    /\ Constructed
    /\ allWords = <<"x", "x", "y">>
    /\ calls = 4
    /\ lastCall.op = "getNextWord"
    /\ drawn = <<"x">>
    /\ BagOf(remainingWords) = BagOf(<<"x", "y">>)
    /\ getCurrentWord = "x"

\* C25: in a session over n words, wordsSpoken + remainingWords.length is
\* a multiple of n; getRemainingCount() is n when wordsSpoken is 0 and
\* (n - (wordsSpoken mod n)) mod n otherwise; so it is 0 exactly when
\* wordsSpoken is a positive multiple of n.
C25_SpokenPlusRemainingIsAMultiple ==
    Constructed =>
        LET n == getTotalWords
        IN  /\ n > 0
            /\ (getWordsSpoken + Len(remainingWords)) % n = 0
            /\ getRemainingCount =
                  IF getWordsSpoken = 0 THEN n ELSE (n - (getWordsSpoken % n)) % n
            /\ getRemainingCount = 0 <=>
                  (getWordsSpoken > 0 /\ getWordsSpoken % n = 0)

\* Six words of a session over three have been returned: nothing remains.
C25_Witness ==
    /\ Constructed
    /\ getTotalWords = 3
    /\ getWordsSpoken = 6
    /\ getRemainingCount = 0
    /\ lastCall.op = "getRemainingCount"
    /\ lastCall.val = 0

\* The time of the last admitted request of a key.
LastAdmitted(ip) == AdmittedOf(ip)[Len(AdmittedOf(ip))]

\* The timestamps the map holds for a key.
TimestampsOf(map, ip) == IF ip \in DOMAIN map THEN map[ip].timestamps ELSE <<>>

\* A call of checkRateLimit for a key: a denied call adds no timestamp to
\* the entry and admits nothing; and a call made when the resetIn seconds
\* of a denial pending for the key have passed is admitted.
DeniedAddsNothingAndResetInSuffices ==
    now' = now =>
        LET ip == rateLimit'.ip IN
        /\ ~rateLimit'.allowed =>
              /\ admitted' = admitted
              /\ TimestampsOf(rateLimitMap', ip) =
                    NewerThan(TimestampsOf(rateLimitMap, ip), now - RATE_LIMIT_WINDOW_MS)
              /\ Len(TimestampsOf(rateLimitMap', ip)) = MAX_REQUESTS_PER_WINDOW
        /\ \A d \in denial[ip].pending :
              now >= d.at + 1000 * d.resetIn => rateLimit'.allowed

\* C26: a denied request adds no timestamp to the entry of its key; and
\* when a request is denied with resetIn = r seconds, a request of the
\* same key made r seconds later (or later still), only denied requests of
\* the key lying in between, is admitted.
C26_DeniedRequestsDoNotExtendTheWait ==
    [][DeniedAddsNothingAndResetInSuffices]_allVars

\* The busy key was denied twice, with resetIn 60 and then 30 seconds, and
\* admitted when both waits were over.
C26_Witness ==
    /\ rateLimit.ip = BusyKey
    /\ rateLimit.allowed
    /\ Cardinality(denial[BusyKey].honoured) >= 2
    /\ \A d \in denial[BusyKey].honoured : now = d.at + 1000 * d.resetIn
    /\ LastAdmitted(BusyKey) = now

\* The index at which "://" first occurs in an origin, 0 when it does not.
SchemeEnd(origin) ==
    LET at == {i \in 1..(Len(origin) - 2) : SubSeq(origin, i, i + 2) = <<":", "/", "/">>}
    IN IF at = {} THEN 0 ELSE CHOOSE i \in at : \A k \in at : i <= k

\* The origin is a URL origin: a scheme, "://" and a host.
IsUrlOrigin(origin) == SchemeEnd(origin) > 1 /\ SchemeEnd(origin) + 2 < Len(origin)

\* The host of a URL origin.
HostOf(origin) == SubSeq(origin, SchemeEnd(origin) + 3, Len(origin))

\* The domains D of the entries "*.D" of ALLOWED_ORIGINS.
WildcardDomains ==
    {Slice(ALLOWED_ORIGINS[i], 2) :
        i \in {k \in DOMAIN ALLOWED_ORIGINS : StartsWith(ALLOWED_ORIGINS[k], <<"*", ".">>)}}

\* The origin is a URL origin whose host is a subdomain of D.
IsSubdomainOrigin(origin, D) ==
    IsUrlOrigin(origin) /\ EndsWith(HostOf(origin), <<".">> \o D)

\* The request the origin validation last saw passed it.
OriginValidated == served.req.method = "POST" /\ res = NoResponse

OriginRefused == served.req.method = "POST" /\ res.status = 403

\* C27: the origin validation lets an origin pass only when it equals an
\* entry of ALLOWED_ORIGINS or is a URL origin whose host is a subdomain of
\* the D of an entry "*.D"; it refuses a missing origin, and it refuses an
\* origin whose host ends with the characters of D without being a
\* subdomain of D.
C27_OnlyExactOrSubdomainOrigins ==
    LET origin == served.req.origin IN
    /\ OriginValidated =>
          \/ origin \in Range(ALLOWED_ORIGINS)
          \/ \E D \in WildcardDomains : IsSubdomainOrigin(origin, D)
    /\ (served.req.method = "POST" /\ Falsy(origin)) => OriginRefused
    /\ (/\ served.req.method = "POST"
        /\ origin \notin Range(ALLOWED_ORIGINS)
        /\ IsUrlOrigin(origin)
        /\ \E D \in WildcardDomains : EndsWith(HostOf(origin), D)
        /\ ~\E D \in WildcardDomains : IsSubdomainOrigin(origin, D))
       => OriginRefused

\* What the origin validation does ensure: a missing or empty origin is
\* refused, and an origin passes exactly when it equals an entry or
\* contains "://" and ends with the characters of the D of an entry "*.D".
EndsWithDomainSuffices ==
    LET origin == served.req.origin IN
    served.req.method = "POST" =>
        /\ OriginValidated \/ OriginRefused
        /\ Falsy(origin) => OriginRefused
        /\ ~Falsy(origin) =>
              (OriginValidated <=>
                  \/ origin \in Range(ALLOWED_ORIGINS)
                  \/ \E D \in WildcardDomains :
                        EndsWith(origin, D) /\ Includes(origin, <<":", "/", "/">>))

\* The origin s://xb, whose host xb is no subdomain of b, passed the
\* validation against the entry *.b.
C27_Witness ==
    /\ served.req.origin = <<"s", ":", "/", "/", "x", "b">>
    /\ OriginValidated
    /\ ~IsSubdomainOrigin(served.req.origin, <<"b">>)
    /\ <<"b">> \in WildcardDomains

\* C28: whenever the practice view is shown there is a session and the
\* repeat button is enabled exactly when the session has a current word;
\* a startPractice that creates a session leaves the button disabled and
\* the session without a current word, whatever a session before left, and
\* a speakNextWord on a session leaves the button enabled and a word drawn.
C28_RepeatButtonFollowsCurrentWord ==
    /\ currentView = "practice" =>
          (Constructed /\ (~page.repeatDisabled <=> hasCurrentWord))
    /\ (event.op = "startPractice" /\ event.error = Null) =>
          (currentView = "practice" /\ page.repeatDisabled /\ ~hasCurrentWord)
    /\ (event.op = "speakNextWord" /\ Constructed) =>
          (~page.repeatDisabled /\ hasCurrentWord)

\* A session has just been started, its button disabled, on a page that
\* still holds the word an earlier session showed after drawing it.
C28_Witness ==
    /\ currentView = "practice"
    /\ event.op = "startPractice"
    /\ event.error = Null
    /\ page.wordDisplay # Null
    /\ page.repeatDisabled
    /\ ~hasCurrentWord

\* C29: whenever the practice view is shown, so after every handler and
\* every speech callback that runs while it is shown, the counter on the
\* page reads "Word N of M" with N = getWordsSpoken() and
\* M = getTotalWords() of the current session.
C29_CounterShowsCurrentSession ==
    currentView = "practice" =>
        /\ Constructed
        /\ page.counter = <<getWordsSpoken, getTotalWords>>

\* The end callback of a word of an earlier session has just run in a new
\* session, over another list, in which no word has been spoken.
C29_Witness ==
    /\ currentView = "practice"
    /\ event.op = "utteranceEnd"
    /\ event.word \notin Range(allWords)
    /\ getWordsSpoken = 0
    /\ page.counter = <<0, 1>>

\* The step is the end of a handleImageCaptured call that went wrong:
\* extractWords threw, there is no OCR module, or no word was detected.
ExtractionFails ==
    event'.op \in {"handleImageCaptured", "extracted"} /\ event'.error # Null

\* The step is the end of a handleImageCaptured call that shows the
\* confirmation view.
ConfirmationEntered == event'.op = "extracted" /\ event'.error = Null

\* What a step of handleImageCaptured brings about.
ImageCapturedEndsSafely ==
    /\ (event'.op = "handleImageCaptured" /\ ~env.ocrModule) => ExtractionFails
    /\ (event'.op = "extracted" /\ currentView' # "confirmation") => ExtractionFails
    /\ ExtractionFails =>
          /\ currentView' = "camera"
          /\ heap' = heap
          /\ session' = session
          /\ this' = this
    /\ ConfirmationEntered =>
          /\ currentView' = "confirmation"
          /\ heap'["arg"] # <<>>
          /\ wordList' = heap'["arg"]
    /\ (currentView' = "confirmation" /\ currentView # "confirmation") =>
          ConfirmationEntered

\* C30: when extraction throws, the OCR module is missing or no word is
\* detected, handleImageCaptured reports an error, shows the camera view
\* and leaves extractedWords and practiceSession as they were; the
\* confirmation view is entered only by a handleImageCaptured that got a
\* list with at least one word, and then extractedWords is the list shown.
C30_FailedExtractionChangesNothing ==
    [][ImageCapturedEndsSafely]_allVars

\* During a session an extraction found no word: the camera view is shown,
\* the session and the words confirmed before are still there.
C30_Witness ==
    /\ event.op = "extracted"
    /\ event.error = "No words detected"
    /\ currentView = "camera"
    /\ Constructed
    /\ hasCurrentWord
    /\ heap["arg"] = <<"x", "y">>
    /\ wordList = heap["arg"]

\* The session keeps to the list it was created with.
SessionKeepsItsList ==
    Constructed =>
        /\ allWords = W
        /\ SubBag(BagOf(remainingWords), BagOf(W))
        /\ Range(drawn) \subseteq Range(W)
        /\ lastCall.op = "getNextWord" => lastCall.val \in Range(W)
        /\ hasCurrentWord => getCurrentWord \in Range(W)

\* An extraction that completes while there is a session leaves the
\* session, its arrays and its list as they were.
ExtractionLeavesSession ==
    (event'.op = "extracted" /\ Constructed) =>
        /\ session' = session
        /\ this' = this
        /\ heap'[this.allWords] = heap[this.allWords]
        /\ heap'[this.remainingWords] = heap[this.remainingWords]
        /\ W' = W
        /\ drawn' = drawn

\* C31: a result of extraction that arrives while a session is active, as
\* when of two handleImageCaptured calls in flight the later completes
\* after startPractice, leaves the session's allWords, pool, wordsSpoken
\* and currentWord as they were, whatever it assigns to extractedWords;
\* and the words the session returns stay within the list it was created
\* with.
C31_LateExtractionLeavesSession ==
    []SessionKeepsItsList /\ [][ExtractionLeavesSession]_allVars

\* An extraction in flight when the session over x, y was started has
\* completed with another list after the session spoke a word; the
\* session still has its list and its current word.
C31_Witness ==
    /\ overlap.late
    /\ event.op = "extracted"
    /\ event.error = Null
    /\ Constructed
    /\ W = <<"x", "y">>
    /\ heap["arg"] = <<"x">>
    /\ allWords = W
    /\ getWordsSpoken = 1
    /\ hasCurrentWord

\* The view shown is one of the four, and the practice view is shown only
\* while there is a session.
PracticeViewHasSession ==
    /\ currentView \in Views
    /\ currentView = "practice" => (session # Null /\ Constructed)

\* The step is a Speak Word click in the practice view.
SpeakWordClicked == currentView = "practice" /\ event'.op = "speakNextWord"

\* The click draws exactly one word of the session's list.
DrawsOneWord ==
    /\ lastCall'.op = "getNextWord"
    /\ getWordsSpoken' = getWordsSpoken + 1
    /\ event'.word = lastCall'.val
    /\ event'.word \in Range(W)
    /\ getCurrentWord' = event'.word

\* The click calls SpeechModule.speak with the word: the utterance is with
\* the synthesizer or the call has ended in the error callback.
HandedToSpeech ==
    /\ event'.error # "missing"
    /\ \/ /\ event'.error = Null
          /\ utterances' = Append(utterances, [word |-> event'.word, counts |-> TRUE])
       \/ /\ event'.error \in {"unsupported", "threw"}
          /\ utterances' = utterances
          /\ page'.wordDisplay = event'.word

\* The click calls showWordAsFallback with the word and no speech module.
ShownWithoutSpeech ==
    /\ event'.error = "missing"
    /\ utterances' = utterances
    /\ page'.wordDisplay = event'.word
    /\ page'.wordShown

\* C32, as stated: the view shown is one of camera, processing,
\* confirmation, practice; the practice view is shown only while there is
\* a constructed session; so a Speak Word click in the practice view
\* always draws exactly one word and hands it to the speech module.
C32_SpeakClickAlwaysReachesSpeech ==
    []PracticeViewHasSession
    /\ [][SpeakWordClicked => (DrawsOneWord /\ HandedToSpeech)]_allVars

\* C32, amended: the view shown is one of the four; the practice view is
\* shown only while there is a constructed session; so a Speak Word click
\* in the practice view always draws exactly one word, which it hands to
\* the speech module when the page has one and shows on the page itself
\* when the page has none.
C32_SpeakClickAlwaysDrawsOneWord ==
    []PracticeViewHasSession
    /\ [][SpeakWordClicked =>
            /\ DrawsOneWord
            /\ env.speechModule => HandedToSpeech
            /\ ~env.speechModule => ShownWithoutSpeech]_allVars

\* On a page without the speech module a Speak Word click in the practice
\* view has drawn a word and shown it; nothing was handed over to be spoken.
C32_Witness ==
    /\ currentView = "practice"
    /\ event.op = "speakNextWord"
    /\ ~env.speechModule
    /\ Constructed
    /\ getWordsSpoken = 1
    /\ event.word = getCurrentWord
    /\ page.wordDisplay = event.word
    /\ utterances = <<>>
====
